---- MODULE Spec2Model ----
(***************************************************************************)
(* Model of REL/crel/conv_el.py: ConvEL.annotate and its helpers           *)
(* _error_check, _el and _pe.  Python dict objects live in a heap indexed  *)
(* by references, so that aliasing between the caller's conversation, the  *)
(* returned list and the history kept for personal-entity linking is       *)
(* observable.  The neural models (mention detection, disambiguation,      *)
(* personal-mention detection, antecedent scoring) are black boxes; their  *)
(* answers are drawn from a small fixture keyed by utterance.              *)
(***************************************************************************)
EXTENDS Integers, Sequences, FiniteSets, TLC

VARIABLES
    pc,               \* position inside annotate ("idle" between calls)
    err,              \* exception that ended the call, "" if none
    heap,             \* reference -> dict object
    conv,             \* the caller's list: sequence of references
    ret,              \* annotate's local list ret: sequence of references
    conv_hist_for_pe, \* self.conv_hist_for_pe: sequence of references
    ment2ent,         \* self.ment2ent: mention text -> entity
    i,                \* 1-based index of the turn of the for loop
    utt,              \* local utt
    el_results,       \* value returned by _el for the current turn
    pem_results,      \* _pe: detected personal mentions
    pem2result,       \* _pe: pem text -> detected span
    outputs,          \* _pe: accepted results so far
    input_data,       \* _pe: the scorer input of the current target
    j,                \* _pe: 1-based index in pem_results
    conv0,            \* observer: the conversation as it was passed in
    m2e0,             \* observer: ment2ent when the call started
    nInvoked,         \* observer: model invocations made by this call
    scored,           \* observer: targets handed to the scorer this turn
    out_span          \* observer: for each accepted result, its target span

vars == <<pc, err, heap, conv, ret, conv_hist_for_pe, ment2ent, i, utt,
          el_results, pem_results, pem2result, outputs, input_data, j,
          conv0, m2e0, nInvoked, scored, out_span>>

\* ---------------------------------------------------------------- bounds
MaxTurns == 2     \* longest conversation passed to annotate
MaxOut == 1       \* most results the post-processing accepts per target

\* ------------------------------------------------------- python helpers
EmptyDict == [k \in {} |-> 0]

SetItem(d, k, v) == [x \in (DOMAIN d) \cup {k} |-> IF x = k THEN v ELSE d[x]]

NonDict == [class |-> "str"]

type(x) == IF DOMAIN x = {"class"} THEN x["class"] ELSE "dict"

Speakers == {"USER", "SYSTEM"}

RECURSIVE SeqMap4(_)
SeqMap4(s) == IF s = <<>> THEN <<>>
              ELSE <<SubSeq(Head(s), 1, 4)>> \o SeqMap4(Tail(s))

LastIndexOf(s, col, key) ==
    CHOOSE k \in 1..Len(s) :
        /\ s[k][col] = key
        /\ \A l \in (k+1)..Len(s) : s[l][col] # key

MentEntDictSwapped(r) ==
    [e \in {r[k][4] : k \in 1..Len(r)} |-> r[LastIndexOf(r, 4, e)][3]]

\* {r[2]: r[3] for r in el_results}
MentEntDict(r) ==
    [m \in {r[k][3] : k \in 1..Len(r)} |-> r[LastIndexOf(r, 3, m)][4]]

\* {r[2]: r for r in pem_results}
Pem2Result(r) ==
    [p \in {r[k][3] : k \in 1..Len(r)} |-> r[LastIndexOf(r, 3, p)]]

DictUpdateKeepFirst(d, e) ==
    [k \in (DOMAIN d) \cup (DOMAIN e) |-> IF k \in DOMAIN d THEN d[k] ELSE e[k]]

\* dict.update
DictUpdate(d, e) ==
    [k \in (DOMAIN d) \cup (DOMAIN e) |-> IF k \in DOMAIN e THEN e[k] ELSE d[k]]

\* ----------------------------------------------- black-box model fixture
Utterances == {"uA", "uB", "uC", "uD"}

\* self.bert_md.md(utt): detected spans [start, length, text]
md(u) ==
    CASE u = "uA" -> << <<0, 2, "m1">>, <<5, 2, "m2">> >>
      [] u = "uB" -> << <<5, 2, "m1">>, <<0, 2, "m1">> >>
      [] u = "uC" -> << <<0, 2, "m1">> >>
      [] OTHER    -> << >>

\* the disambiguation of one span: (start, length, mention, entity, confidence)
Link(u, span) ==
    CASE u = "uA" /\ span = <<0, 2>> -> <<0, 2, "m1", "e1", 9>>
      [] u = "uA" /\ span = <<5, 2>> -> <<5, 2, "m2", "e2", 9>>
      [] u = "uB" /\ span = <<5, 2>> -> <<5, 2, "m1", "e2", 9>>
      [] u = "uB" /\ span = <<0, 2>> -> <<0, 2, "m1", "e1", 9>>
      [] OTHER                       -> <<span[1], span[2], "m1", "e2", 9>>

\* self.response_model.generate_response(text, spans)
generate_response(text, spans) ==
    [k \in 1..Len(spans) |-> Link(text, spans[k])]

\* self.pemd.pem_detector(utt): detected personal mentions [start, length, pem]
pem_detector(u) ==
    CASE u = "uB" -> << <<8, 2, "my">> >>
      [] u = "uC" -> << <<3, 2, "my">>, <<9, 2, "my">> >>
      [] u = "uD" -> << <<9, 3, "our">>, <<3, 2, "my">> >>
      [] OTHER    -> << >>

\* preprocess.get_tokens_with_info + get_input_of_pe_linking: one scorer
\* input per personal mention marked as target in the history
RECURSIVE get_input_of_pe_linking(_)
get_input_of_pe_linking(h) ==
    IF h = <<>> THEN <<>>
    ELSE LET rest == get_input_of_pe_linking(SubSeq(h, 1, Len(h) - 1))
             last == h[Len(h)]
             p    == IF "pems" \in DOMAIN last THEN last["pems"] ELSE <<>>
         IN rest \o [k \in 1..Len(p) |-> [pem |-> p[k], turn |-> Len(h)]]

\* the explicit mentions recorded in the history: the scorer's candidates
HistMentions(h) ==
    UNION {{h[k]["mentions"][l] : l \in 1..Len(h[k]["mentions"])} :
              k \in {n \in 1..Len(h) : "mentions" \in DOMAIN h[n]}}

\* eemd.get_scores + postprocess.get_results: the results accepted above the
\* threshold for the target of input; each names the target and an antecedent
get_results(input, h) ==
    LET one == {[personal_entity_mention |-> input.pem, mention |-> m] :
                    m \in HistMentions(h)}
    IN UNION {[1..n -> one] : n \in 0..MaxOut}

\* ---------------------------------------------------------- ConvEL code
\* ConvEL.ed
ed(text, spans) == generate_response(text, spans)

error_checkFirstTurn(c) ==
    \A k \in 1..(IF Len(c) > 0 THEN 1 ELSE 0) :
        /\ type(c[k]) = "dict"
        /\ DOMAIN c[k] = {"speaker", "utterance"}
        /\ c[k]["speaker"] \in Speakers

\* ConvEL._error_check: TRUE when no assertion fails
error_check(c) ==
    \A k \in 1..Len(c) :
        /\ type(c[k]) = "dict"
        /\ DOMAIN c[k] = {"speaker", "utterance"}
        /\ c[k]["speaker"] \in Speakers

ResetHistKeep(h) == h

\* self.conv_hist_for_pe = []
ResetHist(h) == <<>>

ResetMapKeep(m) == m

\* self.ment2ent = {}
ResetMap(m) == EmptyDict

RetRecordRefAlias(t, n) == t

\* the reference of the dict literal appended to ret
RetRecordRef(t, n) == <<"ret", n>>

IsUserOrSystem(speaker) == speaker \in Speakers

IsUserInverted(speaker) == speaker = "SYSTEM"

\* if turn["speaker"] == "USER"
IsUser(speaker) == speaker = "USER"

\* [r[2] for r in el_results]
MentionsOf(r) == [k \in 1..Len(r) |-> r[k][3]]

ClearedPemsKeep(p) == p

\* self.conv_hist_for_pe[-1]["pems"] = []
ClearedPems(p) == <<>>

ConcatReversed(a, b) == b \o a

\* el_results + pe_results
Concat(a, b) == a \o b

\* Step 3 of _pe for one accepted result
PeAnnotation(r, p2r, m2e) ==
    <<p2r[r.personal_entity_mention][1], p2r[r.personal_entity_mention][2],
      p2r[r.personal_entity_mention][3], m2e[r.mention]>>

\* the objects a list of references points to
Deref(hp, refs) == [k \in 1..Len(refs) |-> hp[refs[k]]]

Refs(s) == {s[k] : k \in 1..Len(s)}

\* objects no longer referenced by the caller or by self are collected
Collect(hp, live) == [r \in (DOMAIN hp) \cap live |-> hp[r]]

\* ------------------------------------------------------------- inputs
SystemUtterances == {"uA", "uD"}

ValidTurns == [speaker : {"USER"}, utterance : Utterances]
                  \cup [speaker : {"SYSTEM"}, utterance : SystemUtterances]

InvalidTurns ==
    { [speaker |-> "BOT", utterance |-> "uA"],
      [speaker |-> "USER"],
      [speaker |-> "USER", utterance |-> "uB", annotations |-> <<>>],
      NonDict }

Conversations == UNION {[1..n -> ValidTurns \cup InvalidTurns] : n \in 0..MaxTurns}

\* -------------------------------------------------------------- state
Init ==
    /\ pc = "idle"
    /\ err = ""
    /\ heap = EmptyDict
    /\ conv = <<>>
    /\ ret = <<>>
    /\ conv_hist_for_pe = <<>>
    /\ ment2ent = EmptyDict
    /\ i = 0
    /\ utt = ""
    /\ el_results = <<>>
    /\ pem_results = <<>>
    /\ pem2result = EmptyDict
    /\ outputs = <<>>
    /\ input_data = <<>>
    /\ j = 0
    /\ conv0 = <<>>
    /\ m2e0 = EmptyDict
    /\ nInvoked = 0
    /\ scored = <<>>
    /\ out_span = <<>>

Locals == <<i, utt, el_results, pem_results, pem2result, outputs, input_data, j>>

\* an exception leaves annotate: the locals are lost, self and the heap stay
Raise(e) ==
    /\ pc' = "aborted"
    /\ err' = e

\* the for loop of annotate moves to the next turn or returns
NextTurn ==
    /\ i' = i + 1
    /\ pc' = IF i = Len(conv) THEN "returned" ELSE "turn"

\* ------------------------------------------------------------- actions
\* annotate(conv), lines 132-135: validation, then the per-call reset
Call(c) ==
    /\ pc = "idle"
    /\ LET inrefs == [k \in 1..Len(c) |-> <<"in", k>>]
           hp     == [r \in (DOMAIN heap) \cup Refs(inrefs) |->
                         IF r \in Refs(inrefs) THEN c[r[2]] ELSE heap[r]]
       IN /\ conv' = inrefs
          /\ conv0' = c
          /\ m2e0' = ment2ent
          /\ nInvoked' = 0
          /\ IF error_check(Deref(hp, inrefs))
             THEN /\ ret' = <<>>
                  /\ conv_hist_for_pe' = ResetHist(conv_hist_for_pe)
                  /\ ment2ent' = ResetMap(ment2ent)
                  /\ heap' = Collect(hp, Refs(inrefs) \cup Refs(conv_hist_for_pe'))
                  /\ i' = 1
                  /\ pc' = IF Len(c) = 0 THEN "returned" ELSE "turn"
                  /\ err' = ""
             ELSE /\ Raise("AssertionError")
                  /\ heap' = hp
                  /\ UNCHANGED <<ret, conv_hist_for_pe, ment2ent, i>>
    /\ UNCHANGED <<utt, el_results, pem_results, pem2result, outputs,
                   input_data, j, scored, out_span>>

\* the head of the loop body, lines 137-149
TurnBegin ==
    /\ pc = "turn"
    /\ LET turn == heap[conv[i]]
       IN IF type(turn) # "dict"
          THEN Raise("TypeError") /\ UNCHANGED <<heap, ret, conv_hist_for_pe, Locals, scored, out_span>>
          ELSE IF {"utterance", "speaker"} \ DOMAIN turn # {}
          THEN Raise("KeyError") /\ UNCHANGED <<heap, ret, conv_hist_for_pe, Locals, scored, out_span>>
          ELSE IF ~IsUserOrSystem(turn["speaker"])
          THEN Raise("AssertionError") /\ UNCHANGED <<heap, ret, conv_hist_for_pe, Locals, scored, out_span>>
          ELSE LET rref == RetRecordRef(conv[i], Len(ret) + 1)
                   href == <<"hist", Len(conv_hist_for_pe) + 1>>
                   rec  == [speaker |-> turn["speaker"], utterance |-> turn["utterance"]]
               IN /\ utt' = turn["utterance"]
                  /\ ret' = Append(ret, rref)
                  /\ conv_hist_for_pe' = Append(conv_hist_for_pe, href)
                  /\ heap' = [r \in (DOMAIN heap) \cup {rref, href} |->
                                 IF r \in {rref, href} THEN rec ELSE heap[r]]
                  /\ el_results' = <<>>
                  /\ pem_results' = <<>>
                  /\ pem2result' = EmptyDict
                  /\ outputs' = <<>>
                  /\ input_data' = <<>>
                  /\ j' = 0
                  /\ scored' = <<>>
                  /\ out_span' = <<>>
                  /\ err' = err
                  /\ IF IsUser(turn["speaker"])
                     THEN pc' = "el" /\ i' = i
                     ELSE NextTurn
    /\ UNCHANGED <<conv, ment2ent, conv0, m2e0, nInvoked>>

\* _el(utt), lines 57-71
El ==
    /\ pc = "el"
    /\ LET md_results == md(utt)
           spans == [k \in 1..Len(md_results) |-> <<md_results[k][1], md_results[k][2]>>]
           res   == ed(utt, spans)
           last  == conv_hist_for_pe[Len(conv_hist_for_pe)]
       IN /\ heap' = [heap EXCEPT ![last] = SetItem(@, "mentions", MentionsOf(res))]
          /\ ment2ent' = DictUpdate(ment2ent, MentEntDict(res))
          /\ el_results' = SeqMap4(res)
    /\ nInvoked' = nInvoked + 2
    /\ pc' = "pe_detect"
    /\ UNCHANGED <<err, conv, ret, conv_hist_for_pe, i, utt, pem_results,
                   pem2result, outputs, input_data, j, conv0, m2e0,
                   scored, out_span>>

\* _pe(utt), lines 76-84: detection of the personal mentions
PeDetect ==
    /\ pc = "pe_detect"
    /\ pem_results' = pem_detector(utt)
    /\ pem2result' = Pem2Result(pem_results')
    /\ outputs' = <<>>
    /\ j' = 1
    /\ nInvoked' = nInvoked + 1
    /\ pc' = IF Len(pem_results') = 0 THEN "pe_finish" ELSE "pe_target"
    /\ UNCHANGED <<err, heap, conv, ret, conv_hist_for_pe, ment2ent, i, utt,
                   el_results, input_data, conv0, m2e0, scored, out_span>>

\* _pe(utt), lines 85-99: the j-th personal mention becomes the target
PeTarget ==
    /\ pc = "pe_target"
    /\ LET pem  == pem_results[j][3]
           last == conv_hist_for_pe[Len(conv_hist_for_pe)]
           hp   == [heap EXCEPT ![last] = SetItem(@, "pems", <<pem>>)]
           inp  == get_input_of_pe_linking(Deref(hp, conv_hist_for_pe))
       IN /\ heap' = hp
          /\ IF Len(inp) = 1
             THEN /\ input_data' = inp[1]
                  /\ pc' = "pe_score"
                  /\ err' = err
             ELSE /\ Raise("AssertionError")
                  /\ input_data' = inp
    /\ UNCHANGED <<conv, ret, conv_hist_for_pe, ment2ent, i, utt, el_results,
                   pem_results, pem2result, outputs, j, conv0, m2e0,
                   nInvoked, scored, out_span>>

\* _pe(utt), lines 101-107: scoring and post-processing for the target
PeScore ==
    /\ pc = "pe_score"
    /\ \E res \in get_results(input_data, Deref(heap, conv_hist_for_pe)) :
          /\ outputs' = outputs \o res
          /\ out_span' = out_span \o [k \in 1..Len(res) |-> pem_results[j]]
    /\ scored' = Append(scored, input_data.pem)
    /\ nInvoked' = nInvoked + 1
    /\ j' = j + 1
    /\ pc' = IF j = Len(pem_results) THEN "pe_finish" ELSE "pe_target"
    /\ UNCHANGED <<err, heap, conv, ret, conv_hist_for_pe, ment2ent, i, utt,
                   el_results, pem_results, pem2result, input_data,
                   conv0, m2e0>>

\* _pe(utt), lines 109-121, and annotate, line 152
PeFinish ==
    /\ pc = "pe_finish"
    /\ LET last == conv_hist_for_pe[Len(conv_hist_for_pe)]
           cur  == IF "pems" \in DOMAIN heap[last] THEN heap[last]["pems"] ELSE <<>>
           hp   == [heap EXCEPT ![last] = SetItem(@, "pems", ClearedPems(cur))]
       IN IF \E k \in 1..Len(outputs) :
                \/ outputs[k].personal_entity_mention \notin DOMAIN pem2result
                \/ outputs[k].mention \notin DOMAIN ment2ent
          THEN /\ Raise("KeyError")
               /\ heap' = hp
               /\ i' = i
          ELSE LET pe_results == [k \in 1..Len(outputs) |->
                                     PeAnnotation(outputs[k], pem2result, ment2ent)]
                   rlast == ret[Len(ret)]
               IN /\ heap' = [hp EXCEPT ![rlast] =
                                 SetItem(@, "annotations", Concat(el_results, pe_results))]
                  /\ err' = err
                  /\ NextTurn
    /\ UNCHANGED <<conv, ret, conv_hist_for_pe, ment2ent, utt, el_results,
                   pem_results, pem2result, outputs, input_data, j, conv0,
                   m2e0, nInvoked, scored, out_span>>

\* the caller lets go of the conversation and of the result (or of the
\* exception); what self holds stays
Drop ==
    /\ pc \in {"returned", "aborted"}
    /\ pc' = "idle"
    /\ err' = ""
    /\ conv' = <<>>
    /\ ret' = <<>>
    /\ heap' = Collect(heap, Refs(conv_hist_for_pe))
    /\ i' = 0
    /\ utt' = ""
    /\ el_results' = <<>>
    /\ pem_results' = <<>>
    /\ pem2result' = EmptyDict
    /\ outputs' = <<>>
    /\ input_data' = <<>>
    /\ j' = 0
    /\ conv0' = <<>>
    /\ m2e0' = EmptyDict
    /\ nInvoked' = 0
    /\ scored' = <<>>
    /\ out_span' = <<>>
    /\ UNCHANGED <<conv_hist_for_pe, ment2ent>>

Next ==
    \/ \E c \in Conversations : Call(c)
    \/ TurnBegin
    \/ El
    \/ PeDetect
    \/ PeTarget
    \/ PeScore
    \/ PeFinish
    \/ Drop

Spec == Init /\ [][Next]_vars

\* ------------------------------------------------- observation helpers
StructurallyValid(t) ==
    /\ type(t) = "dict"
    /\ DOMAIN t = {"speaker", "utterance"}
    /\ t["speaker"] \in {"USER", "SYSTEM"}

\* what the disambiguation model returns for utterance u
Linked(u) ==
    LET m == md(u)
    IN generate_response(u, [k \in 1..Len(m) |-> <<m[k][1], m[k][2]>>])

\* the (mention, entity) pairs linked in USER turns 1..k of the conversation
LinkedUpTo(k) ==
    UNION {{<<Linked(conv0[n]["utterance"])[l][3], Linked(conv0[n]["utterance"])[l][4]>> :
               l \in 1..Len(Linked(conv0[n]["utterance"]))} :
              n \in {x \in 1..k : conv0[x]["speaker"] = "USER"}}

\* the entity of the latest linking of mention m in turns 1..k
RECURSIVE LatestEntity(_, _)
LatestEntity(m, k) ==
    IF k = 0 THEN "none"
    ELSE LET r    == IF conv0[k]["speaker"] = "USER"
                     THEN Linked(conv0[k]["utterance"]) ELSE <<>>
             hits == {l \in 1..Len(r) : r[l][3] = m}
         IN IF hits = {} THEN LatestEntity(m, k - 1)
            ELSE r[CHOOSE l \in hits : \A x \in hits : x <= l][4]

\* a model is being invoked, or about to be, for turn i
Processing == pc \in {"el", "pe_detect", "pe_target", "pe_score", "pe_finish"}

\* personal-entity linking of turn i is running
PeRunning == pc \in {"pe_detect", "pe_target", "pe_score", "pe_finish"}

\* turn i-1 was a USER turn and its annotations have just been stored
TurnDone ==
    /\ pc \in {"turn", "returned"}
    /\ i > 1
    /\ conv0[i - 1]["speaker"] = "USER"

DoneAnnotations == heap[ret[i - 1]]["annotations"]

DoneLinked == Linked(conv0[i - 1]["utterance"])

HistoryMatches(k) ==
    /\ Len(conv_hist_for_pe) = k
    /\ \A n \in 1..k :
          /\ heap[conv_hist_for_pe[n]]["speaker"] = conv0[n]["speaker"]
          /\ heap[conv_hist_for_pe[n]]["utterance"] = conv0[n]["utterance"]

\* the history records whose personal-mention field is non-empty
WithTarget ==
    {n \in 1..Len(conv_hist_for_pe) :
        /\ "pems" \in DOMAIN heap[conv_hist_for_pe[n]]
        /\ heap[conv_hist_for_pe[n]]["pems"] # <<>>}

C2_InvalidAbortsUntouched ==
    [][ /\ (pc = "idle" /\ pc' # "idle"
               /\ \E k \in 1..Len(conv0') : ~StructurallyValid(conv0'[k]))
            => /\ pc' = "aborted"
               /\ nInvoked' = 0
               /\ ret' = <<>>
               /\ conv_hist_for_pe' = conv_hist_for_pe
               /\ Deref(heap', conv_hist_for_pe') = Deref(heap, conv_hist_for_pe)
               /\ ment2ent' = ment2ent
        /\ (pc # "aborted" /\ pc' = "aborted") => pc = "idle" ]_vars

C2_Witness ==
    /\ pc = "aborted"
    /\ Len(conv0) = 2
    /\ StructurallyValid(conv0[1])
    /\ conv0[1]["speaker"] = "USER"
    /\ ~StructurallyValid(conv0[2])
    /\ conv_hist_for_pe # <<>>
    /\ ment2ent # EmptyDict

\* C3: while turn i of the current call is processed, the history holds
\* exactly i records, those of turns 1..i of the current conversation in
\* order, and every entry of the mention-to-entity map was linked in a USER
\* turn 1..i of the current call, whatever earlier calls left behind.
C3_OnlyCurrentCallVisible ==
    Processing =>
        /\ HistoryMatches(i)
        /\ \A m \in DOMAIN ment2ent : <<m, ment2ent[m]>> \in LinkedUpTo(i)

C3_Witness ==
    /\ pc = "pe_score"
    /\ i = 2
    /\ conv0[1]["speaker"] = "SYSTEM"
    /\ \E m \in DOMAIN m2e0 : m \notin DOMAIN ment2ent
    /\ \E m \in DOMAIN m2e0 : m \in DOMAIN ment2ent /\ m2e0[m] # ment2ent[m]

\* C4: the annotations of a USER turn are the disambiguation results in the
\* order returned, each cut to four fields, followed by one annotation per
\* accepted personal result in the order the results were accepted.
C4_ExplicitThenPersonal ==
    TurnDone =>
        /\ Len(DoneAnnotations) = Len(DoneLinked) + Len(outputs)
        /\ \A k \in 1..Len(DoneLinked) :
              DoneAnnotations[k] = <<DoneLinked[k][1], DoneLinked[k][2],
                                     DoneLinked[k][3], DoneLinked[k][4]>>
        /\ \A q \in 1..Len(outputs) :
              /\ Len(DoneAnnotations[Len(DoneLinked) + q]) = 4
              /\ DoneAnnotations[Len(DoneLinked) + q][3] = outputs[q].personal_entity_mention
              /\ DoneAnnotations[Len(DoneLinked) + q][4] = ment2ent[outputs[q].mention]

C4_Witness ==
    /\ TurnDone
    /\ Len(DoneLinked) = 2
    /\ Len(outputs) = 1
    /\ DoneLinked[1] # DoneLinked[2]

\* C5: the entity of a personal annotation is the entity of the latest
\* linking, up to and including the current turn, of its antecedent text.
C5_LastWriteWins ==
    TurnDone =>
        \A q \in 1..Len(outputs) :
            DoneAnnotations[Len(DoneLinked) + q][4] = LatestEntity(outputs[q].mention, i - 1)

C5_Witness ==
    /\ TurnDone
    /\ i = 3
    /\ conv0[1]["speaker"] = "USER"
    /\ \E q \in 1..Len(outputs) :
          /\ LatestEntity(outputs[q].mention, 1) # "none"
          /\ LatestEntity(outputs[q].mention, 1) # LatestEntity(outputs[q].mention, 2)
          /\ DoneAnnotations[Len(DoneLinked) + q][4] = LatestEntity(outputs[q].mention, 2)

\* C6: from the start of a call until the caller lets go, the input list and
\* every input turn record are as they were passed in, and no record of the
\* result is one of the input records.
C6_InputUntouched ==
    pc # "idle" =>
        /\ conv = [k \in 1..Len(conv0) |-> <<"in", k>>]
        /\ Deref(heap, conv) = conv0
        /\ Refs(ret) \cap Refs(conv) = {}

C6_Witness ==
    /\ pc = "returned"
    /\ Len(conv0) = 2
    /\ \A k \in 1..2 : conv0[k]["speaker"] = "USER"
    /\ \A k \in 1..2 : heap[ret[k]]["annotations"] # <<>>

\* C7 as stated: once annotate has returned, the history and the
\* mention-to-entity map are empty.
C7_DiscardedAtReturn ==
    pc = "returned" => (conv_hist_for_pe = <<>> /\ ment2ent = EmptyDict)

\* C7 amended: after annotate has returned, the history still holds one
\* record per turn of the conversation just processed and the map the
\* mentions linked in it; both are empty again only once the next call has
\* passed validation, before its first turn is processed.
C7_KeptUntilNextCall ==
    /\ pc = "returned" =>
          /\ HistoryMatches(Len(conv0))
          /\ {<<m, ment2ent[m]>> : m \in DOMAIN ment2ent} \subseteq LinkedUpTo(Len(conv0))
          /\ DOMAIN ment2ent = {p[1] : p \in LinkedUpTo(Len(conv0))}
    /\ (pc = "turn" /\ i = 1) => (conv_hist_for_pe = <<>> /\ ment2ent = EmptyDict)

C7_Witness ==
    /\ pc = "returned"
    /\ Len(conv_hist_for_pe) = 2
    /\ Cardinality(DOMAIN ment2ent) = 2
    /\ m2e0 # EmptyDict

\* C8: the scorer is invoked once per detected personal mention, in detection
\* order; at each invocation the last history record, and no other, has a
\* non-empty personal-mention field, holding exactly the target; outside the
\* target loop no history record has a non-empty personal-mention field.
C8_OneTargetAtATime ==
    /\ pc = "pe_score" =>
          /\ WithTarget = {Len(conv_hist_for_pe)}
          /\ heap[conv_hist_for_pe[Len(conv_hist_for_pe)]]["pems"] = <<pem_detector(utt)[j][3]>>
          /\ input_data.pem = pem_detector(utt)[j][3]
          /\ scored = [k \in 1..(j - 1) |-> pem_detector(utt)[k][3]]
    /\ pc \in {"idle", "turn", "el", "pe_detect", "returned"} => WithTarget = {}
    /\ TurnDone =>
          scored = [k \in 1..Len(pem_detector(conv0[i - 1]["utterance"])) |->
                       pem_detector(conv0[i - 1]["utterance"])[k][3]]
    /\ err # "AssertionError" \/ nInvoked = 0

C8_Witness ==
    /\ pc = "pe_score"
    /\ i = 2
    /\ j = 2
    /\ conv0[1]["speaker"] = "USER"
    /\ pem_detector(conv0[1]["utterance"]) # <<>>
    /\ pem_results[1][3] # pem_results[2][3]

\* C9: while personal-entity linking of a turn runs, the explicit linking of
\* that turn is recorded in the history, the mention texts in the history are
\* exactly the keys of the mention-to-entity map, and no lookup of an
\* antecedent fails with a missing key.
C9_AntecedentsResolvable ==
    /\ PeRunning =>
          /\ "mentions" \in DOMAIN heap[conv_hist_for_pe[Len(conv_hist_for_pe)]]
          /\ HistMentions(Deref(heap, conv_hist_for_pe)) = DOMAIN ment2ent
    /\ err # "KeyError"

C9_Witness ==
    /\ pc = "pe_finish"
    /\ i = 2
    /\ \E q \in 1..Len(outputs) :
          /\ outputs[q].mention \in DOMAIN ment2ent
          /\ \A l \in 1..Len(el_results) : el_results[l][3] # outputs[q].mention

\* C10: a personal annotation carries the start offset, length and text of
\* the span that was the target when its result was accepted.
C10_OwnSpanReported ==
    TurnDone =>
        \A q \in 1..Len(outputs) :
            /\ DoneAnnotations[Len(DoneLinked) + q][1] = out_span[q][1]
            /\ DoneAnnotations[Len(DoneLinked) + q][2] = out_span[q][2]
            /\ DoneAnnotations[Len(DoneLinked) + q][3] = out_span[q][3]

====
